---- MODULE Spec2Model ----
(***************************************************************************)
(* Model of Task2.py: a build helper that clones a repository into the     *)
(* directory tmp_repo, keeps one source directory, writes version.json     *)
(* into it, zips it into the current working directory and deletes         *)
(* tmp_repo.  The state is the file system, the position of the script     *)
(* in main() and the local variables of main().                            *)
(*                                                                         *)
(* A file name is a sequence of tokens in which the token "." is the dot   *)
(* character, so that Path.suffix can be computed as pathlib computes it.  *)
(* A location of the file system is the sequence of names from the root.   *)
(* A pathlib path is a record [abs, segs]: pathlib compares and joins      *)
(* paths by their text, the operating system resolves them.                *)
(***************************************************************************)
EXTENDS Integers, Sequences, FiniteSets, TLC

VARIABLES
    fs,               \* the file system: location -> node
    pc,               \* the step main() is about to run, "idle" outside a run
    run,              \* number of invocations so far
    argc,             \* len(sys.argv) - 1 of the current invocation
    repo_url, source_rel_path, version,       \* sys.argv[1..3]
    source_dir, files_list, archive_path,     \* locals of main()
    steps,            \* the steps of the current run that completed
    error,            \* the exception that left main(), if any
    exit_status,      \* status of the process that ended last
    stdout,           \* what the current run printed, by kind of line
    today             \* index of the current date in Days

vars == <<fs, pc, run, argc, repo_url, source_rel_path, version, source_dir,
          files_list, archive_path, steps, error, exit_status, stdout, today>>

\* number of invocations of the script in one behaviour
MaxRuns == 2

\* largest number of command-line arguments tried
MaxArgc == 4

-----------------------------------------------------------------------------
(* names and paths                                                         *)

Nm(s) == <<s>>
Ext(stem, e) == <<stem, ".", e>>
DOT == <<".">>
DOTDOT == <<".", ".">>
ROOT == <<"/">>

Rel(segs) == [abs |-> FALSE, segs |-> segs]
Abs(segs) == [abs |-> TRUE, segs |-> segs]

\* Path(text): pathlib drops the "." components of the text and keeps ".."
PathOf(raw) == [abs |-> raw.abs, segs |-> SelectSeq(raw.segs, LAMBDA s : s # DOT)]

\* a / b of pathlib: an absolute right operand replaces the left one
Join(a, b) == IF b.abs THEN b ELSE [abs |-> a.abs, segs |-> a.segs \o b.segs]

\* Path.parts: the anchor "/" is the first part of an absolute path
Parts(p) == IF p.abs THEN <<ROOT>> \o p.segs ELSE p.segs

LastDot(name) ==
    LET I == {i \in 1..Len(name) : name[i] = "."}
    IN  IF I = {} THEN 0 ELSE CHOOSE i \in I : \A j \in I : j <= i

\* Path.suffix: the text from the last dot, unless that dot is the first or
\* the last character of the name
Suffix(name) ==
    LET i == LastDot(name)
    IN  IF 1 < i /\ i < Len(name) THEN SubSeq(name, i, Len(name)) ELSE <<>>

\* os.path.normpath on the components of a path text
RECURSIVE NormSegs(_, _, _)
NormSegs(isAbs, segs, acc) ==
    IF segs = <<>> THEN acc
    ELSE LET s == Head(segs)
             r == Tail(segs)
         IN  IF s = DOT THEN NormSegs(isAbs, r, acc)
             ELSE IF s = DOTDOT
                  THEN IF acc # <<>> /\ acc[Len(acc)] # DOTDOT
                       THEN NormSegs(isAbs, r, SubSeq(acc, 1, Len(acc) - 1))
                       ELSE IF isAbs THEN NormSegs(isAbs, r, acc)
                            ELSE NormSegs(isAbs, r, Append(acc, s))
                  ELSE NormSegs(isAbs, r, Append(acc, s))

NormPath(raw) == NormSegs(raw.abs, raw.segs, <<>>)

-----------------------------------------------------------------------------
(* the file system                                                         *)

Cwd == <<Nm("w")>>
tmp_dir == Rel(<<Nm("tmp_repo")>>)
TmpLoc == Cwd \o tmp_dir.segs

DirNode == [kind |-> "dir"]
FileNode(data) == [kind |-> "file", data |-> data]

IsPrefix(d, p) == Len(d) <= Len(p) /\ SubSeq(p, 1, Len(d)) = d

Parent(loc) == IF loc = <<>> THEN <<>> ELSE SubSeq(loc, 1, Len(loc) - 1)

Children(f, d) == {p \in DOMAIN f : Len(p) = Len(d) + 1 /\ IsPrefix(d, p)}

Under(f, d) == {p \in DOMAIN f : IsPrefix(d, p)}

WriteNode(f, p, node) == [q \in DOMAIN f \cup {p} |-> IF q = p THEN node ELSE f[q]]

\* shutil.rmtree / Path.unlink: the entry and everything below it disappear
Remove(f, p) == [q \in {q \in DOMAIN f : ~IsPrefix(p, q)} |-> f[q]]

\* the operating system resolving a path: every component passed through
\* must be an existing directory, ".." goes to the parent directory
RECURSIVE Walk(_, _, _)
Walk(f, cur, segs) ==
    IF cur \notin DOMAIN f THEN [ok |-> FALSE, loc |-> <<>>]
    ELSE IF segs = <<>> THEN [ok |-> TRUE, loc |-> cur]
    ELSE IF f[cur].kind # "dir" THEN [ok |-> FALSE, loc |-> <<>>]
    ELSE LET s == Head(segs)
         IN  IF s = DOT THEN Walk(f, cur, Tail(segs))
             ELSE IF s = DOTDOT THEN Walk(f, Parent(cur), Tail(segs))
             ELSE Walk(f, Append(cur, s), Tail(segs))

Resolve(f, p) == Walk(f, IF p.abs THEN <<>> ELSE Cwd, p.segs)

\* Path.exists() and Path.is_dir() / Path.is_file()
Exists(f, p) == Resolve(f, p).ok
IsDir(f, p) == LET r == Resolve(f, p) IN r.ok /\ f[r.loc].kind = "dir"
IsFile(f, p) == LET r == Resolve(f, p) IN r.ok /\ f[r.loc].kind = "file"

-----------------------------------------------------------------------------
(* the world the script runs in                                            *)

Days == << [y |-> 2026, m |-> 11, d |-> 3], [y |-> 2027, m |-> 1, d |-> 10] >>

DigitChars == <<"0", "1", "2", "3", "4", "5", "6", "7", "8", "9">>
Digit(n) == DigitChars[n + 1]

\* strftime("%Y%m%d"): four digits of the year, two of the month, two of the day
DateStr(day) ==
    << Digit(day.y \div 1000), Digit((day.y \div 100) % 10),
       Digit((day.y \div 10) % 10), Digit(day.y % 10),
       Digit(day.m \div 10), Digit(day.m % 10),
       Digit(day.d \div 10), Digit(day.d % 10) >>

VersionJson == Ext("version", "json")
GitDir == <<".", "git">>

\* the trees the clone command can deliver, by the URL given to it
RepoMain ==
    [ loc \in { <<GitDir>>, <<Nm("app")>>, <<Nm("app"), Ext("e", "py")>>,
                <<Nm("src")>>, <<Nm("src"), Nm("app")>> } |-> "dir" ]
    @@
    [ loc \in { <<GitDir, Nm("HEAD")>>, <<Nm("README")>>,
                <<Nm("app"), Ext("a", "py")>>, <<Nm("app"), Ext("b", "txt")>>,
                <<Nm("app"), Ext("c", "sh")>>, <<Nm("app"), Ext("d", "js")>>,
                <<Nm("app"), Nm("README")>>, <<Nm("app"), Ext("A", "PY")>>,
                <<Nm("app"), <<".", "py">> >>, <<Nm("app"), VersionJson>>,
                <<Nm("app"), Ext("e", "py"), Ext("x", "py")>>,
                <<Nm("src"), Nm("app"), Ext("run", "py")>>,
                <<Nm("src"), Nm("app"), Ext("notes", "md")>> } |-> "file" ]

RepoLib ==
    [ loc \in { <<GitDir>>, <<Nm("lib")>>, <<Nm("lib"), VersionJson>> } |-> "dir" ]
    @@
    [ loc \in { <<GitDir, Nm("HEAD")>>, <<Nm("lib"), Ext("m", "sh")>> } |-> "file" ]

Remotes == [ u \in {"https://example/repo.git", "https://example/lib.git"} |->
               IF u = "https://example/repo.git" THEN RepoMain ELSE RepoLib ]

Urls == DOMAIN Remotes \cup {"https://example/missing.git"}

Versions == {"1.2.3", "v2 beta"}

SourcePaths ==
    { Rel(<<Nm("app")>>), Rel(<<Nm("src"), Nm("app")>>), Rel(<<DOT>>),
      Rel(<<DOTDOT>>), Abs(<<Nm("opt")>>), Rel(<<Nm("README")>>),
      Rel(<<Nm("nope")>>), Rel(<<DOT, Nm("app")>>),
      Rel(<<Nm("app"), Ext("e", "py")>>), Rel(<<Nm("lib")>>),
      Rel(<<Nm("app"), DOTDOT>>) }

HostData == [src |-> "host", run |-> 0]
StaleData == [src |-> "stale", run |-> 0]

\* the host before the first run: the working directory /w and a directory
\* /opt that does not belong to the script
HostFs ==
    [ loc \in { <<>>, Cwd, <<Nm("opt")>> } |-> DirNode ]
    @@ [ loc \in { <<Nm("opt"), Ext("h", "sh")>> } |-> FileNode(HostData) ]

\* a workspace left behind by an earlier, failed run
StaleFs ==
    [ loc \in { TmpLoc, TmpLoc \o <<Nm("app")>> } |-> DirNode ]
    @@ [ loc \in { TmpLoc \o <<Nm("app"), Ext("stale", "py")>>,
                   TmpLoc \o <<Ext("old", "sh")>> } |-> FileNode(StaleData) ]

-----------------------------------------------------------------------------
(* the script                                                              *)

NoError == [type |-> "none", msg |-> "none"]
BuildScriptError(msg) == [type |-> "BuildScriptError", msg |-> msg]
Unhandled(type) == [type |-> type, msg |-> "traceback"]

NoPath == Rel(<<>>)

UsageError_AtLeast(n) == n < 3

\* __main__: len(sys.argv) != 4
UsageError(n) == n # 3

Caught_Nothing(err) == FALSE

\* __main__: except BuildScriptError
Caught(err) == err.type = "BuildScriptError"

\* the status the process ends with
ExitStatus(err) == IF err = NoError \/ Caught(err) THEN 0 ELSE 1

Raise_ThenCleanUp(err) ==
    /\ pc' = "teardown"
    /\ error' = err
    /\ exit_status' = exit_status
    /\ stdout' = stdout

\* an exception leaves main(): the remaining steps are skipped
Raise(err) ==
    /\ pc' = "idle"
    /\ error' = err
    /\ exit_status' = ExitStatus(err)
    /\ stdout' = IF Caught(err) THEN Append(stdout, "build error") ELSE stdout

Invoke(n, u, p, v) ==
    /\ pc = "idle"
    /\ run < MaxRuns
    /\ run' = run + 1
    /\ argc' = n
    /\ steps' = <<>>
    /\ error' = NoError
    /\ source_dir' = NoPath
    /\ files_list' = <<>>
    /\ archive_path' = <<>>
    /\ IF UsageError(n)
       THEN /\ pc' = "idle"
            /\ stdout' = <<"usage">>
            /\ exit_status' = 0
            /\ repo_url' = ""
            /\ source_rel_path' = NoPath
            /\ version' = ""
       ELSE /\ pc' = "reset"
            /\ stdout' = <<>>
            /\ repo_url' = u
            /\ source_rel_path' = p
            /\ version' = v
            /\ UNCHANGED exit_status
    /\ UNCHANGED <<fs, today>>

ResetFs_Skip(f) == f

\* main, lines 35-41
ResetFs(f) == IF Exists(f, tmp_dir) THEN Remove(f, Resolve(f, tmp_dir).loc) ELSE f

Reset ==
    /\ pc = "reset"
    /\ fs' = ResetFs(fs)
    /\ stdout' = Append(stdout, IF Exists(fs, tmp_dir) THEN "tmp removed" ELSE "tmp absent")
    /\ pc' = "fetch"
    /\ steps' = Append(steps, "reset")
    /\ UNCHANGED <<run, argc, repo_url, source_rel_path, version, source_dir,
                   files_list, archive_path, error, exit_status, today>>

\* git clone refuses a destination that exists and is not an empty directory
DestinationFree(f) ==
    \/ TmpLoc \notin DOMAIN f
    \/ f[TmpLoc].kind = "dir" /\ Children(f, TmpLoc) = {}

CloneData(r) == [src |-> "clone", run |-> r]

Cloned(f, tree, r) ==
    [ q \in DOMAIN f \cup {TmpLoc} \cup {TmpLoc \o loc : loc \in DOMAIN tree} |->
        IF q = TmpLoc THEN DirNode
        ELSE IF IsPrefix(TmpLoc, q)
             THEN LET loc == SubSeq(q, Len(TmpLoc) + 1, Len(q))
                  IN  IF tree[loc] = "dir" THEN DirNode ELSE FileNode(CloneData(r))
             ELSE f[q] ]

\* what a clone command that was interrupted can leave in the destination
PartialRepo == [ loc \in { <<GitDir>> } |-> "dir" ]

\* main, lines 43-46, with run_cmd: the command exits with status 0 and has
\* cloned the repository, or it exits with another status and has removed
\* what it created, unless it was interrupted before it could
Fetch ==
    /\ pc = "fetch"
    /\ \E ok \in BOOLEAN, interrupted \in BOOLEAN :
         IF ok /\ repo_url \in DOMAIN Remotes /\ DestinationFree(fs)
         THEN /\ fs' = Cloned(fs, Remotes[repo_url], run)
              /\ pc' = "locate"
              /\ steps' = Append(steps, "fetch")
              /\ UNCHANGED <<error, exit_status, stdout>>
         ELSE /\ Raise(BuildScriptError("command"))
              /\ fs' = IF interrupted /\ DestinationFree(fs)
                       THEN Cloned(fs, PartialRepo, run) ELSE fs
              /\ UNCHANGED steps
    /\ UNCHANGED <<run, argc, repo_url, source_rel_path, version, source_dir,
                   files_list, archive_path, today>>

SourceFound_AnyKind(f, sd) == Exists(f, sd)

\* main, line 51
SourceFound(f, sd) == Exists(f, sd) /\ IsDir(f, sd)

\* main, lines 48-53
Locate ==
    /\ pc = "locate"
    /\ source_dir' = Join(tmp_dir, PathOf(source_rel_path))
    /\ IF SourceFound(fs, source_dir')
       THEN /\ pc' = "prune"
            /\ steps' = Append(steps, "locate")
            /\ UNCHANGED <<error, exit_status, stdout>>
       ELSE /\ Raise(BuildScriptError("source"))
            /\ UNCHANGED steps
    /\ UNCHANGED <<fs, run, argc, repo_url, source_rel_path, version,
                   files_list, archive_path, today>>

\* tmp_dir.iterdir(): the children of the directory as paths tmp_dir / name
IterDir(f, d) ==
    LET r == Resolve(f, d)
    IN  {Join(d, Rel(<<loc[Len(loc)]>>)) : loc \in Children(f, r.loc)}

\* main, line 58: the entries the loop deletes
Doomed(f, sd) == {item \in IterDir(f, tmp_dir) : item # sd}

RECURSIVE RemoveAll(_, _)
RemoveAll(f, items) ==
    IF items = {} THEN f
    ELSE LET item == CHOOSE i \in items : TRUE
         IN  RemoveAll(Remove(f, Resolve(f, item).loc), items \ {item})

PruneFs(f, sd) == RemoveAll(f, Doomed(f, sd))

\* main, lines 55-67
Prune ==
    /\ pc = "prune"
    /\ fs' = PruneFs(fs, source_dir)
    /\ pc' = "manifest"
    /\ steps' = Append(steps, "prune")
    /\ UNCHANGED <<run, argc, repo_url, source_rel_path, version, source_dir,
                   files_list, archive_path, error, exit_status, stdout, today>>

Extensions == { <<".", "py">>, <<".", "js">>, <<".", "sh">> }

Matching_NoFileCheck(f, sd) ==
    { item.segs[Len(item.segs)] : item \in
        { i \in IterDir(f, sd) : Suffix(i.segs[Len(i.segs)]) \in Extensions } }

\* main, line 71: the names that pass the filter
Matching(f, sd) ==
    { item.segs[Len(item.segs)] : item \in
        { i \in IterDir(f, sd) : IsFile(f, i) /\ Suffix(i.segs[Len(i.segs)]) \in Extensions } }

\* the orders in which the directory listing can deliver a set of names
Orders(S) == { s \in [1..Cardinality(S) -> S] : \A i, j \in DOMAIN s : s[i] = s[j] => i = j }

version_data(v, files, r) ==
    [src |-> "manifest", run |-> r, name |-> "hello world", version |-> v, files |-> files]

\* main, lines 69-86
BuildManifest ==
    /\ pc = "manifest"
    /\ IF ~IsDir(fs, source_dir)
       THEN /\ Raise(Unhandled("FileNotFoundError"))
            /\ UNCHANGED <<fs, files_list, steps>>
       ELSE \E order \in Orders(Matching(fs, source_dir)) :
              /\ files_list' = order
              /\ LET version_json_path == Join(source_dir, Rel(<<VersionJson>>))
                 IN  IF IsDir(fs, version_json_path)
                     THEN /\ Raise(Unhandled("IsADirectoryError"))
                          /\ UNCHANGED <<fs, steps>>
                     ELSE /\ fs' = WriteNode(fs, Append(Resolve(fs, source_dir).loc, VersionJson),
                                             FileNode(version_data(version, order, run)))
                          /\ pc' = "archive"
                          /\ steps' = Append(steps, "manifest")
                          /\ UNCHANGED <<error, exit_status, stdout>>
    /\ UNCHANGED <<run, argc, repo_url, source_rel_path, version, source_dir,
                   archive_path, today>>

\* os.path.relpath(loc, start) for two resolved locations
RECURSIVE Common(_, _)
Common(a, b) ==
    IF a # <<>> /\ b # <<>> /\ Head(a) = Head(b) THEN 1 + Common(Tail(a), Tail(b)) ELSE 0

RelPath(loc, start) ==
    LET k == Common(loc, start)
    IN  [i \in 1..(Len(start) - k) |-> DOTDOT] \o SubSeq(loc, k + 1, Len(loc))

ZipEntries_Filtered(f, raw) ==
    LET base == Resolve(f, Join(tmp_dir, raw)).loc
    IN  { [arc |-> Append(RelPath(Parent(p), TmpLoc), p[Len(p)]), node |-> f[p]] :
            p \in { q \in Children(f, base) :
                      /\ f[q].kind = "file"
                      /\ Suffix(q[Len(q)]) \in Extensions \cup {<<".", "json">>} } }

\* shutil.make_archive(format='zip', root_dir=tmp_dir, base_dir=raw): the
\* entry for base_dir itself, then one entry per directory and file below it
ZipEntries(f, raw) ==
    LET base == Resolve(f, Join(tmp_dir, raw)).loc
        top  == NormPath(raw)
    IN  (IF top = <<>> THEN {} ELSE {[arc |-> top, node |-> f[base]]})
        \cup { [arc |-> Append(RelPath(Parent(p), TmpLoc), p[Len(p)]), node |-> f[p]] :
                 p \in Under(f, base) \ {base} }

ArchiveData(r, entries) == [src |-> "archive", run |-> r, entries |-> entries]

\* main, lines 89-92: the name and the place of the archive
ArchiveName(last_dir_name, day) == last_dir_name \o DateStr(day) \o <<".", "zip">>

\* Path.cwd() / archive_name
ArchiveLoc(last_dir_name, day) == Append(Cwd, ArchiveName(last_dir_name, day))

\* the file system after the archive was written: the zip file is created
\* first, so a walk that passes over it finds it still empty
Archived(f, raw, aloc, r) ==
    LET f1 == WriteNode(f, aloc, FileNode(ArchiveData(r, {})))
    IN  WriteNode(f, aloc, FileNode(ArchiveData(r, ZipEntries(f1, raw))))

\* main, lines 88-97
Archive ==
    /\ pc = "archive"
    /\ LET parts == Parts(PathOf(source_rel_path))
       IN  IF parts = <<>>
           THEN /\ Raise(Unhandled("IndexError"))
                /\ UNCHANGED <<fs, archive_path, steps, today>>
           ELSE \E d \in today..Len(Days) :
                  /\ today' = d
                  /\ archive_path' = ArchiveLoc(parts[Len(parts)], Days[d])
                  /\ fs' = Archived(fs, source_rel_path, archive_path', run)
                  /\ pc' = "teardown"
                  /\ steps' = Append(steps, "archive")
                  /\ UNCHANGED <<error, exit_status, stdout>>
    /\ UNCHANGED <<run, argc, repo_url, source_rel_path, version, source_dir, files_list>>

\* main, lines 99-102, and the normal end of the process
Teardown ==
    /\ pc = "teardown"
    /\ IF ~Exists(fs, tmp_dir)
       THEN /\ Raise(Unhandled("FileNotFoundError"))
            /\ UNCHANGED <<fs, steps>>
       ELSE /\ fs' = Remove(fs, Resolve(fs, tmp_dir).loc)
            /\ pc' = "idle"
            /\ steps' = Append(steps, "teardown")
            /\ exit_status' = ExitStatus(NoError)
            /\ UNCHANGED <<error, stdout>>
    /\ UNCHANGED <<run, argc, repo_url, source_rel_path, version, source_dir,
                   files_list, archive_path, today>>

Init ==
    /\ fs \in {HostFs, HostFs @@ StaleFs}
    /\ pc = "idle"
    /\ run = 0
    /\ argc = 0
    /\ repo_url = ""
    /\ source_rel_path = NoPath
    /\ version = ""
    /\ source_dir = NoPath
    /\ files_list = <<>>
    /\ archive_path = <<>>
    /\ steps = <<>>
    /\ error = NoError
    /\ exit_status = 0
    /\ stdout = <<>>
    /\ today = 1

Next ==
    \/ \E u \in Urls, p \in SourcePaths, v \in Versions : Invoke(3, u, p, v)
    \/ \E n \in (0..MaxArgc) \ {3} : Invoke(n, "", NoPath, "")
    \/ Reset
    \/ Fetch
    \/ Locate
    \/ Prune
    \/ BuildManifest
    \/ Archive
    \/ Teardown

Spec == Init /\ [][Next]_vars

-----------------------------------------------------------------------------
(* properties                                                              *)

Range(seq) == {seq[i] : i \in DOMAIN seq}

\* where the text of the path argument leads under tmp_repo
ArgLoc(f) == Resolve(f, Join(tmp_dir, source_rel_path))

\* the located source directory
SrcLoc(f) == Resolve(f, source_dir).loc

IsFileAt(f, p) == p \in DOMAIN f /\ f[p].kind = "file"
IsDirAt(f, p) == p \in DOMAIN f /\ f[p].kind = "dir"

\* the files written by run r: its manifests and its archives
WrittenBy(f, r, what) ==
    {p \in DOMAIN f : f[p].kind = "file" /\ f[p].data.src = what /\ f[p].data.run = r}

MultiSegment == ~source_rel_path.abs /\ Len(source_rel_path.segs) > 1

\* a relative path of one or several ordinary segments
PlainRelative ==
    /\ ~source_rel_path.abs
    /\ source_rel_path.segs # <<>>
    /\ \A i \in DOMAIN source_rel_path.segs : source_rel_path.segs[i] \notin {DOT, DOTDOT}

\* C1: for every accepted source path, one segment or several, prune leaves
\* the located source directory in place with its contents untouched, and it
\* is then the only entry of the temporary directory.
C1_PruneKeepsOnlySource ==
    [][ (pc = "prune" /\ PlainRelative) =>
          LET sd == SrcLoc(fs)
          IN  /\ Under(fs', sd) = Under(fs, sd)
              /\ \A p \in Under(fs, sd) : fs'[p] = fs[p]
              /\ Children(fs', TmpLoc) = {sd} ]_vars

\* C2: a run on a multi-segment path that is a directory of a successful
\* clone goes through all steps without error and ends with the archive
\* <last segment><YYYYMMDD>.zip in the working directory, holding the source
\* files and version.json under the relative path; for src/app the archive
\* holds src/app/run.py and src/app/version.json with files == ["run.py"] and
\* the version given.
C2_MultiSegmentRunSucceeds ==
    (pc = "idle" /\ MultiSegment /\ "locate" \in Range(steps)) =>
        /\ error = NoError
        /\ steps = <<"reset", "fetch", "locate", "prune", "manifest", "archive", "teardown">>
        /\ \E d \in 1..Len(Days) :
             LET zip == Append(Cwd, source_rel_path.segs[Len(source_rel_path.segs)]
                                      \o DateStr(Days[d]) \o <<".", "zip">>)
             IN  /\ IsFileAt(fs, zip)
                 /\ fs[zip].data.src = "archive"
                 /\ fs[zip].data.run = run
                 /\ \E e \in fs[zip].data.entries :
                      /\ e.arc = Append(source_rel_path.segs, VersionJson)
                      /\ e.node.kind = "file"
                      /\ e.node.data.src = "manifest"
                      /\ e.node.data.version = version
                      /\ (source_rel_path.segs = <<Nm("src"), Nm("app")>> =>
                            /\ e.node.data.files = <<Ext("run", "py")>>
                            /\ \E e2 \in fs[zip].data.entries :
                                 e2.arc = <<Nm("src"), Nm("app"), Ext("run", "py")>>)

\* the archive of the current run, once the archive step has completed
ThisArchive == fs[archive_path].data

\* C3 as stated: the archive of a successful run holds, in the source
\* directory, only the files that passed the extension filter and version.json.
C3_ArchiveHoldsOnlyFilteredFiles ==
    (pc = "teardown" /\ IsPrefix(TmpLoc, SrcLoc(fs))) =>
        \A e \in ThisArchive.entries :
            (e.node.kind = "file" /\ Len(e.arc) = Len(NormPath(source_rel_path)) + 1) =>
                e.arc[Len(e.arc)] \in Range(files_list) \cup {VersionJson}

\* C3 amended: the archive of a successful run holds every file and every
\* subdirectory of the source directory as it stood when it was archived,
\* whatever the extension, together with the version.json of this run, and
\* nothing else; for a source directory inside the workspace each entry is
\* named by the relative source path followed by the path inside the
\* source directory.
C3_ArchiveHoldsWholeSourceDir ==
    pc = "teardown" =>
        LET sd == SrcLoc(fs)
            inside(p) == SubSeq(p, Len(sd) + 1, Len(p))
        IN  /\ \A p \in Under(fs, sd) \ {archive_path} :
                 \E e \in ThisArchive.entries :
                     /\ e.node = fs[p]
                     /\ SubSeq(e.arc, Len(e.arc) - Len(inside(p)) + 1, Len(e.arc)) = inside(p)
                     /\ (IsPrefix(TmpLoc, sd) => e.arc = NormPath(source_rel_path) \o inside(p))
            /\ Cardinality(ThisArchive.entries) = Cardinality(Under(fs, sd))
            /\ \E e \in ThisArchive.entries :
                 /\ e.arc[Len(e.arc)] = VersionJson
                 /\ e.node = FileNode(version_data(version, files_list, run))

C3_Witness ==
    /\ pc = "teardown"
    /\ source_rel_path = Rel(<<Nm("app")>>)
    /\ \E e \in ThisArchive.entries : e.arc = <<Nm("app"), Ext("b", "txt")>>
    /\ \E e \in ThisArchive.entries : e.arc = <<Nm("app"), Ext("e", "py"), Ext("x", "py")>>

\* a name that ends in .py, .js or .sh after a non-empty stem
HasListedExtension(n) ==
    /\ Len(n) >= 3
    /\ n[Len(n) - 1] = "."
    /\ n[Len(n)] \in {"py", "js", "sh"}

\* C4: the files list written to version.json is, as a set, exactly the
\* names of the immediate children of the source directory that are regular
\* files with the extension .py, .js or .sh; nothing else is listed, and no
\* name is listed twice.
C4_ManifestListsFilteredFiles ==
    pc = "archive" =>
        LET sd == SrcLoc(fs)
            manifest == fs[Append(sd, VersionJson)].data
        IN  /\ manifest.src = "manifest"
            /\ manifest.run = run
            /\ manifest.files = files_list
            /\ Range(manifest.files) =
                 { p[Len(p)] : p \in { q \in DOMAIN fs : /\ Len(q) = Len(sd) + 1
                                                       /\ SubSeq(q, 1, Len(sd)) = sd
                                                       /\ fs[q].kind = "file"
                                                       /\ HasListedExtension(q[Len(q)]) } }
            /\ Len(manifest.files) = Cardinality(Range(manifest.files))

C4_Witness ==
    /\ pc = "archive"
    /\ source_rel_path = Rel(<<Nm("app")>>)
    /\ IsDirAt(fs, TmpLoc \o <<Nm("app"), Ext("e", "py")>>)
    /\ IsFileAt(fs, TmpLoc \o <<Nm("app"), Ext("b", "txt")>>)
    /\ IsFileAt(fs, TmpLoc \o <<Nm("app"), <<".", "py">> >>)
    /\ Range(fs[TmpLoc \o <<Nm("app"), VersionJson>>].data.files)
         = {Ext("a", "py"), Ext("c", "sh"), Ext("d", "js")}

\* C5: a process that ended by success, by a usage error or by a command or
\* validation failure (logged at the top level) ended with status 0; the
\* status is nonzero only after a failure of another kind.
C5_ExitStatus ==
    (pc = "idle" /\ run > 0) =>
        /\ (stdout = <<"usage">> \/ error.type \in {"none", "BuildScriptError"}) => exit_status = 0
        /\ exit_status # 0 => error.type \notin {"none", "BuildScriptError"}
        /\ error.type = "BuildScriptError" => stdout[Len(stdout)] = "build error"
        /\ error.type \notin {"none", "BuildScriptError"} => exit_status # 0

C5_Witness ==
    /\ pc = "idle"
    /\ error = BuildScriptError("source")
    /\ exit_status = 0
    /\ run = 2

\* C6: an invocation with an argument count other than three runs no step:
\* the file system, the temporary directory included, stays as it was, and
\* the process ends with status 0 after printing the usage text.
C6_WrongArgcDoesNothing ==
    [][ (run' = run + 1 /\ argc' # 3) =>
          /\ fs' = fs
          /\ pc' = "idle"
          /\ steps' = <<>>
          /\ stdout' = <<"usage">>
          /\ exit_status' = 0
          /\ error' = NoError ]_vars

C6_Witness ==
    /\ pc = "idle"
    /\ argc = 4
    /\ stdout = <<"usage">>
    /\ IsDirAt(fs, TmpLoc)
    /\ Children(fs, TmpLoc) # {}

\* C7: after a successful clone, locate fails with the source-not-found
\* build error exactly when the path resolved under the temporary directory
\* does not exist or is not a directory, and accepts it otherwise; a failing
\* locate leaves the file system as it was.
C7_LocateValidates ==
    [][ pc = "locate" =>
          LET r == ArgLoc(fs)
              isDirectory == r.ok /\ fs[r.loc].kind = "dir"
          IN  /\ isDirectory => (pc' = "prune" /\ error' = NoError)
              /\ ~isDirectory => (pc' = "idle" /\ error' = BuildScriptError("source"))
              /\ fs' = fs ]_vars

C7_Witness ==
    /\ pc = "idle"
    /\ error = BuildScriptError("source")
    /\ ArgLoc(fs).ok
    /\ fs[ArgLoc(fs).loc].kind = "file"
    /\ IsDirAt(fs, TmpLoc \o <<Nm("app")>>)

\* C8: reset leaves the temporary directory absent whatever it held, changes
\* nothing when it is absent already and never fails; so every clone starts
\* with the temporary path absent, and no file of an earlier workspace is in
\* the workspace, the manifest or the archive of a later run.
C8_ResetClearsWorkspace ==
    [][ /\ pc = "reset" =>
             /\ pc' = "fetch"
             /\ error' = NoError
             /\ Under(fs', TmpLoc) = {}
             /\ \A p \in DOMAIN fs : ~IsPrefix(TmpLoc, p) => (p \in DOMAIN fs' /\ fs'[p] = fs[p])
             /\ DOMAIN fs' \subseteq DOMAIN fs
             /\ (TmpLoc \notin DOMAIN fs => fs' = fs)
        /\ pc = "fetch" => Under(fs, TmpLoc) = {}
        /\ pc' \in {"locate", "prune", "manifest", "archive", "teardown"} =>
             \A p \in Under(fs', TmpLoc) : fs'[p].kind = "file" => fs'[p].data.run = run'
        /\ pc' = "archive" =>
             \A n \in Range(files_list') :
                 LET d == fs'[Append(SrcLoc(fs'), n)].data
                 IN  d.src # "stale" /\ (d.src = "clone" => d.run = run')
        /\ pc' = "teardown" =>
             \A e \in fs'[archive_path'].data.entries :
                 e.node.kind = "file" =>
                    /\ e.node.data.src # "stale"
                    /\ e.node.data.src = "clone" => e.node.data.run = run' ]_vars

C8_Witness ==
    /\ pc = "teardown"
    /\ run = 2
    /\ stdout = <<"tmp removed">>
    /\ source_rel_path = Rel(<<Nm("app")>>)

\* C9 as stated: the steps run in the order reset, fetch, locate, prune,
\* build manifest, archive, teardown and none runs after a failed one; a run
\* whose fetch or locate fails writes no version.json and no archive and
\* leaves the temporary directory behind; teardown deletes the temporary
\* directory exactly in the runs where the archive was created.
C9_FailedRunLeavesTmpBehind ==
    (pc = "idle" /\ argc = 3) =>
        /\ \E k \in 0..7 :
             steps = SubSeq(<<"reset", "fetch", "locate", "prune", "manifest", "archive", "teardown">>, 1, k)
        /\ ("teardown" \in Range(steps)) <=> ("archive" \in Range(steps))
        /\ error.type = "BuildScriptError" =>
             /\ WrittenBy(fs, run, "manifest") = {}
             /\ WrittenBy(fs, run, "archive") = {}
             /\ IsDirAt(fs, TmpLoc)

\* C9 amended: the steps run in the order reset, fetch, locate, prune, build
\* manifest, archive, teardown, each after the previous one completed, and
\* none runs after a failed one; a run whose fetch or locate fails writes no
\* version.json and no archive and deletes nothing: after a failed locate the
\* cloned temporary directory is left behind unchanged, after a failed fetch
\* the temporary path holds only what the clone command left there, which
\* can be nothing at all; teardown deletes the temporary directory exactly
\* in the runs where the archive was created.
C9_StepsInOrderNoCleanup ==
    [][ /\ \E k \in 0..7 :
             steps' = SubSeq(<<"reset", "fetch", "locate", "prune", "manifest", "archive", "teardown">>, 1, k)
        /\ steps' # steps => (steps' = <<>> \/ steps' = Append(steps, pc))
        /\ error' # NoError => pc' = "idle"
        /\ (pc # "idle" /\ pc' = "idle") =>
             /\ ("teardown" \in Range(steps')) <=> ("archive" \in Range(steps'))
             /\ ("teardown" \in Range(steps')) <=> (pc = "teardown" /\ TmpLoc \notin DOMAIN fs')
             /\ error'.type = "BuildScriptError" =>
                  /\ pc \in {"fetch", "locate"}
                  /\ WrittenBy(fs', run', "manifest") = {}
                  /\ WrittenBy(fs', run', "archive") = {}
                  /\ \A p \in DOMAIN fs : p \in DOMAIN fs' /\ fs'[p] = fs[p]
                  /\ \A p \in DOMAIN fs' \ DOMAIN fs : IsPrefix(TmpLoc, p)
                  /\ pc = "locate" => (fs' = fs /\ IsDirAt(fs', TmpLoc))
                  /\ (pc = "locate" <=> error' = BuildScriptError("source")) ]_vars

C9_Witness ==
    /\ pc = "idle"
    /\ run = 2
    /\ error = BuildScriptError("command")
    /\ steps = <<"reset">>
    /\ stdout = <<"tmp removed", "build error">>
    /\ TmpLoc \notin DOMAIN fs

\* C10: every source path that locate accepts leads strictly inside the
\* temporary directory, so version.json is never written outside the
\* workspace and no archive holds a file from outside the clone.
C10_SourceStaysInsideClone ==
    /\ pc \in {"prune", "manifest", "archive", "teardown"} =>
         /\ ArgLoc(fs).ok => (IsPrefix(TmpLoc, ArgLoc(fs).loc) /\ ArgLoc(fs).loc # TmpLoc)
    /\ \A p \in DOMAIN fs :
         (fs[p].kind = "file" /\ fs[p].data.src = "manifest") => IsPrefix(TmpLoc, p)
    /\ \A p \in DOMAIN fs :
         (fs[p].kind = "file" /\ fs[p].data.src = "archive") =>
             \A e \in fs[p].data.entries :
                 e.node.kind = "file" => e.node.data.src \in {"clone", "manifest"}

====
